---------------------------- MODULE Spec2Model ----------------------------
(***************************************************************************)
(* SLA-Forge agent pipeline: Planner -> ToolExecutor -> Solver -> Verifier *)
(* (src/agents/*.py, sequenced by src/scripts/minimal_chain_demo.py).      *)
(*                                                                         *)
(* A Python str on which the code works character by character (request,   *)
(* query, keyword, corpus field, context, answer, feedback) is a sequence  *)
(* of Unicode code points.  Identifiers the code only compares or passes   *)
(* on (task types, tool names, priority levels, dict keys, corpus file     *)
(* names) are TLA+ strings.  A float score 2.0*M/T is the reduced fraction *)
(* [num, den]; a float rounded to two decimals is its number of            *)
(* hundredths.                                                             *)
(***************************************************************************)
EXTENDS Integers, Sequences, FiniteSets

VARIABLES
    task_rules,       \* Planner._TASK_RULES (a mutable class-level list)
    default_task,     \* Planner.default_task
    anomaly_entries,  \* ToolExecutor._anomaly_entries
    sop_entries,      \* ToolExecutor._sop_entries
    bom_entries,      \* ToolExecutor._bom_entries
    request,          \* per run: the request text
    stage,            \* per run: position in run_request
    plan,             \* per run: the TaskPlan
    best,             \* per run: what _best_match returned to the tool
    retrieval,        \* per run: the RetrievalResult
    solve_result,     \* per run: the SolveResult
    verification      \* per run: the VerificationResult

vars == <<task_rules, default_task, anomaly_entries, sop_entries, bom_entries,
          request, stage, plan, best, retrieval, solve_result, verification>>

shared == <<task_rules, default_task, anomaly_entries, sop_entries, bom_entries>>

(***************************************************************************)
(* Bounds of the model.                                                    *)
(***************************************************************************)
\* words concatenated into one request
MaxWords == 2
\* rows in the data files
MaxRecords == 2
\* pipeline runs sharing one ToolExecutor
NumRuns == 2

None == [kind |-> "None"]

(***************************************************************************)
(* str helpers                                                             *)
(***************************************************************************)
\* str.isspace(): the code points Python's strip() removes
WhitespaceChars ==
    {9, 10, 11, 12, 13, 28, 29, 30, 31, 32, 133, 160, 5760} \cup (8192..8202)
        \cup {8232, 8233, 8239, 8287, 12288}

\* str.lower() on one character of the alphabet used here: ASCII letters
\* fold, CJK characters and punctuation have no case
LowerChar(c) == IF c \in 65..90 THEN c + 32 ELSE c

Lower(s) == [i \in 1..Len(s) |-> LowerChar(s[i])]

\* `sub in s`
Contains(s, sub) ==
    \E i \in 0..(Len(s) - Len(sub)) : SubSeq(s, i + 1, i + Len(sub)) = sub

\* str.strip()
Strip(s) ==
    LET keep == {i \in 1..Len(s) : s[i] \notin WhitespaceChars}
    IN  IF keep = {} THEN <<>>
        ELSE LET lo == CHOOSE i \in keep : \A j \in keep : i <= j
                 hi == CHOOSE i \in keep : \A j \in keep : j <= i
             IN  SubSeq(s, lo, hi)

RECURSIVE Join(_, _)
\* sep.join(parts)
Join(sep, parts) ==
    IF parts = <<>> THEN <<>>
    ELSE IF Len(parts) = 1 THEN parts[1]
    ELSE parts[1] \o sep \o Join(sep, Tail(parts))

RECURSIVE Gcd(_, _)
Gcd(a, b) == IF b = 0 THEN a ELSE Gcd(b, a % b)

(***************************************************************************)
(* Planner (src/agents/planner.py)                                         *)
(***************************************************************************)
TASK_RULES ==
    << [task_type |-> "anomaly_diagnosis", tool |-> "anomaly_diagnosis",
        keywords |-> << <<21578, 35686>>, <<25253, 35686>>,
                        <<24322, 24120>>, <<35786, 26029>> >>],
       [task_type |-> "sop_lookup", tool |-> "sop_lookup",
        keywords |-> << <<115, 111, 112>>, <<20445, 20840>>,
                        <<25805, 20316, 35268, 31243>>,
                        <<26631, 20934, 20316, 19994>>,
                        <<27493, 39588>>, <<26816, 20462>> >>],
       [task_type |-> "workorder_recommendation",
        tool |-> "workorder_recommendation",
        keywords |-> << <<98, 111, 109>>, <<24037, 21333>>,
                        <<22791, 20214>>, <<29289, 26009>>,
                        <<26356, 25442>>,
                        <<32500, 20462, 20219, 21153>> >>] >>

\* the dict `markers` of _estimate_priority, in insertion order
PRIORITY_MARKERS ==
    << [marker |-> <<32039, 24613>>, level |-> "high"],
       [marker |-> <<31435, 21363>>, level |-> "high"],
       [marker |-> <<23613, 24555>>, level |-> "high"],
       [marker |-> <<24314, 35758>>, level |-> "standard"],
       [marker |-> <<20248, 21270>>, level |-> "standard"] >>

\* extract_query cutting one character too many at the front
ExtractQueryOffByOne(req) ==
    IF Strip(req) = <<>> THEN <<>> ELSE Tail(Strip(req))

extract_query(req) == Strip(req)

RECURSIVE PriorityScan(_, _)
PriorityScan(normalized, i) ==
    IF i > Len(PRIORITY_MARKERS) THEN "standard"
    ELSE IF Contains(normalized, PRIORITY_MARKERS[i].marker)
         THEN PRIORITY_MARKERS[i].level
         ELSE PriorityScan(normalized, i + 1)

estimate_priority(req) == PriorityScan(Lower(req), 1)

\* [kw for kw in rule["keywords"] if kw.lower() in normalized]
matched_keywords(rule, normalized) ==
    LET Hit(kw) == Contains(normalized, Lower(kw))
    IN  SelectSeq(rule.keywords, Hit)

RulePlan(rule, req, matched) ==
    [task_type |-> rule.task_type,
     tool_name |-> rule.tool,
     query     |-> extract_query(req),
     metadata  |-> [matched_keywords |-> Join(<<44>>, matched),
                    priority |-> estimate_priority(req)]]

\* FallbackPlan without the reason marker
FallbackPlanNoReason(default, req) ==
    [task_type |-> default,
     tool_name |-> default,
     query     |-> Strip(req),
     metadata  |-> [matched_keywords |-> <<>>,
                    priority |-> "standard"]]

FallbackPlan(default, req) ==
    [task_type |-> default,
     tool_name |-> default,
     query     |-> extract_query(req),
     metadata  |-> [matched_keywords |-> <<>>,
                    priority |-> estimate_priority(req),
                    reason |-> "fallback"]]

RECURSIVE PlanScan(_, _, _, _)
\* the loop `for rule in self._TASK_RULES`, from rule i on
PlanScan(rules, default, req, i) ==
    IF i > Len(rules) THEN FallbackPlan(default, req)
    ELSE LET matched == matched_keywords(rules[i], Lower(req))
         IN  IF matched # <<>> THEN RulePlan(rules[i], req, matched)
             ELSE PlanScan(rules, default, req, i + 1)

\* Plan with the rule list scanned from its end
PlanLastRuleFirst(rules, default, req) ==
    LET hits == {i \in 1..Len(rules) :
                    matched_keywords(rules[i], Lower(req)) # <<>>}
    IN  IF hits = {} THEN FallbackPlan(default, req)
        ELSE LET i == CHOOSE n \in hits : \A m \in hits : m <= n
             IN  RulePlan(rules[i], req,
                          matched_keywords(rules[i], Lower(req)))

Plan(rules, default, req) == PlanScan(rules, default, req, 1)

(***************************************************************************)
(* ToolExecutor (src/agents/tools.py)                                      *)
(***************************************************************************)
Zero == [num |-> 0, den |-> 1]

\* the float 2.0 * matches / length
Ratio(matches, length) ==
    LET g == Gcd(2 * matches, length)
    IN  [num |-> (2 * matches) \div g, den |-> length \div g]

Less(x, y) == x.num * y.den < y.num * x.den

RECURSIVE Ext(_, _, _, _, _, _)
\* length of the common run of a[i..ahi] and b[j..bhi] that starts at i, j
Ext(a, b, i, j, ahi, bhi) ==
    IF i > ahi \/ j > bhi THEN 0
    ELSE IF a[i] # b[j] THEN 0
    ELSE 1 + Ext(a, b, i + 1, j + 1, ahi, bhi)

\* difflib.SequenceMatcher.find_longest_match without junk (autojunk only
\* applies from 200 characters on): the longest block, of those the one
\* starting earliest in a, of those the one starting earliest in b
find_longest_match(a, b, alo, ahi, blo, bhi) ==
    LET pairs == (alo..ahi) \X (blo..bhi)
        size == [p \in pairs |-> Ext(a, b, p[1], p[2], ahi, bhi)]
        sizes == {size[p] : p \in pairs}
        k == CHOOSE n \in sizes : \A m \in sizes : m <= n
        starts == {p[1] : p \in {q \in pairs : size[q] = k}}
        i == CHOOSE n \in starts : \A m \in starts : n <= m
        ends == {p[2] : p \in {q \in pairs : size[q] = k /\ q[1] = i}}
        j == CHOOSE n \in ends : \A m \in ends : n <= m
    IN  [i |-> i, j |-> j, k |-> k]

RECURSIVE matching_blocks(_, _, _, _, _, _)
\* total size of SequenceMatcher.get_matching_blocks within a[alo..ahi],
\* b[blo..bhi]
matching_blocks(a, b, alo, ahi, blo, bhi) ==
    IF alo > ahi \/ blo > bhi THEN 0
    ELSE LET m == find_longest_match(a, b, alo, ahi, blo, bhi)
         IN  IF m.k = 0 THEN 0
             ELSE m.k
                  + matching_blocks(a, b, alo, m.i - 1, blo, m.j - 1)
                  + matching_blocks(a, b, m.i + m.k, ahi, m.j + m.k, bhi)

\* ToolExecutor._score
Score(query, text) ==
    IF query = <<>> \/ text = <<>> THEN Zero
    ELSE LET a == Lower(query)
             b == Lower(text)
         IN  Ratio(matching_blocks(a, b, 1, Len(a), 1, Len(b)),
                   Len(a) + Len(b))

\* " ".join(entry[field] for field in fields if field in entry)
MatchText(entry, fields) ==
    LET Has(f) == f \in DOMAIN entry
        present == SelectSeq(fields, Has)
    IN  Join(<<32>>, [i \in 1..Len(present) |-> entry[present[i]]])

\* `if score >= best_score`
ImprovesOrEqual(score, best_score) == ~Less(score, best_score)

\* `if score > best_score` of _best_match
Improves(score, best_score) == Less(best_score, score)

RECURSIVE BestMatchLoop(_, _, _, _, _, _)
\* the loop of _best_match from entry i on; best_entry is the position of
\* the entry object held so far, 0 for None
BestMatchLoop(entries, query, fields, i, best_entry, best_score) ==
    IF i > Len(entries) THEN [entry |-> best_entry, score |-> best_score]
    ELSE LET score == Score(query, MatchText(entries[i], fields))
         IN  IF Improves(score, best_score)
             THEN BestMatchLoop(entries, query, fields, i + 1, i, score)
             ELSE BestMatchLoop(entries, query, fields, i + 1,
                                best_entry, best_score)

\* _best_match starting from best_score = -1.0
BestMatchFromMinusOne(entries, query, fields) ==
    BestMatchLoop(entries, query, fields, 1, 0, [num |-> -1, den |-> 1])

best_match(entries, query, fields) ==
    BestMatchLoop(entries, query, fields, 1, 0, Zero)

empty_result(p) ==
    [task_type |-> p.task_type, query |-> p.query, context |-> <<>>,
     source |-> [file |-> "", key |-> <<>>], score |-> Zero,
     metadata |-> [warning |-> "no matching entry"]]

\* entry[key] of a key the record does not have
KeyError(key) == [kind |-> "KeyError", key |-> key]

\* the first of the keys, in the order the tool reads them, that the entry
\* lacks; "" when it has them all
FirstMissing(entry, reads) ==
    LET Lacks(f) == f \notin DOMAIN entry
        lacking == SelectSeq(reads, Lacks)
    IN  IF lacking = <<>> THEN "" ELSE lacking[1]

AnomalyFields == <<"symptom", "probable_causes">>
SopFields == <<"equipment", "issue">>
BomFields == <<"asset", "issue">>

\* _run_anomaly_tool after its call of _best_match returned bm
run_anomaly_tool(entries, p, bm) ==
    IF bm.entry = 0 THEN empty_result(p)
    ELSE LET entry == entries[bm.entry]
             miss == FirstMissing(entry, <<"alert_id", "symptom",
                        "probable_causes", "recommended_actions">>)
         IN  IF miss # "" THEN KeyError(miss)
             ELSE [task_type |-> p.task_type, query |-> p.query,
                   context |-> <<21578, 35686, 32>> \o entry.alert_id
                       \o <<65306>> \o entry.symptom
                       \o <<10, 21487, 33021, 21407, 22240, 65306>>
                       \o entry.probable_causes
                       \o <<10, 25512, 33616, 25514, 26045, 65306>>
                       \o entry.recommended_actions,
                   source |-> [file |-> "anomaly_diagnostics.csv",
                               key |-> entry.alert_id],
                   score |-> bm.score,
                   metadata |-> [alert_id |-> entry.alert_id]]

\* _run_sop_tool after its call of _best_match returned bm
run_sop_tool(entries, p, bm) ==
    IF bm.entry = 0 THEN empty_result(p)
    ELSE LET entry == entries[bm.entry]
             miss == FirstMissing(entry, <<"equipment", "issue", "sop_steps">>)
         IN  IF miss # "" THEN KeyError(miss)
             ELSE [task_type |-> p.task_type, query |-> p.query,
                   context |-> <<35774, 22791, 32>> \o entry.equipment
                       \o <<32, 30340, 38382, 39064, 65306>> \o entry.issue
                       \o <<10, 83, 79, 80, 32, 27493, 39588, 65306>>
                       \o entry.sop_steps,
                   source |-> [file |-> "sop_lookup.csv",
                               key |-> entry.equipment],
                   score |-> bm.score,
                   metadata |-> [equipment |-> entry.equipment]]

\* _run_bom_tool after its call of _best_match returned bm
run_bom_tool(entries, p, bm) ==
    IF bm.entry = 0 THEN empty_result(p)
    ELSE LET entry == entries[bm.entry]
             miss == FirstMissing(entry, <<"asset", "issue", "work_order",
                                           "advice">>)
         IN  IF miss # "" THEN KeyError(miss)
             ELSE [task_type |-> p.task_type, query |-> p.query,
                   context |-> <<21333, 20803, 32>> \o entry.asset
                       \o <<32, 30340, 38382, 39064, 65306>> \o entry.issue
                       \o <<10, 24314, 35758, 24037, 21333, 65306>>
                       \o entry.work_order
                       \o <<10, 25191, 34892, 24314, 35758, 65306>>
                       \o entry.advice,
                   source |-> [file |-> "bom_workorders.txt",
                               key |-> entry.asset],
                   score |-> bm.score,
                   metadata |-> [asset |-> entry.asset,
                                 work_order |-> entry.work_order]]

unknown_tool_result(p) ==
    [task_type |-> p.task_type, query |-> p.query, context |-> <<>>,
     source |-> [file |-> "unknown", key |-> <<>>], score |-> Zero,
     metadata |-> [error |-> <<"no tool named", p.tool_name>>]]

\* the (entry, score) pair the dispatched tool gets from _best_match; None
\* when execute dispatches to no tool
ToolMatch(an, sop, bom, p) ==
    IF p.tool_name = "anomaly_diagnosis"
        THEN best_match(an, p.query, AnomalyFields)
    ELSE IF p.tool_name = "sop_lookup"
        THEN best_match(sop, p.query, SopFields)
    ELSE IF p.tool_name = "workorder_recommendation"
        THEN best_match(bom, p.query, BomFields)
    ELSE None

\* ToolExecutor.execute: a RetrievalResult, or the KeyError it raises
execute(an, sop, bom, p, bm) ==
    IF p.tool_name = "anomaly_diagnosis" THEN run_anomaly_tool(an, p, bm)
    ELSE IF p.tool_name = "sop_lookup" THEN run_sop_tool(sop, p, bm)
    ELSE IF p.tool_name = "workorder_recommendation"
        THEN run_bom_tool(bom, p, bm)
    ELSE unknown_tool_result(p)

IsRaised(x) == "kind" \in DOMAIN x /\ x.kind = "KeyError"

(***************************************************************************)
(* Solver (src/agents/solver.py)                                           *)
(***************************************************************************)
\* a float in [0, 1] rounded to two decimals (round(x, 2), f"{x:.2f}"), in
\* hundredths.  Python rounds the exact binary value; an exact tie needs the
\* reduced denominator 8, 40 or 200, the eighths are exact in binary and go
\* to the even hundredth, and 40 and 200 lie beyond the lengths modelled.
Hundredths(x) ==
    LET q == (100 * x.num) \div x.den
        r == (100 * x.num) % x.den
    IN  IF 2 * r < x.den THEN q
        ELSE IF 2 * r > x.den THEN q + 1
        ELSE IF q % 2 = 0 THEN q ELSE q + 1

REFUSAL ==
    <<26410, 26816, 32034, 21040, 30456, 20851, 30693, 35782, 65292, 35831,
      36716, 20154, 24037, 25110, 34917, 20805, 26356, 22810, 20449, 24687,
      12290>>

compose_answer(task_type, r) ==
    IF task_type = "anomaly_diagnosis" THEN
        <<12304, 21578, 35686, 35786, 26029, 32467, 26524, 12305, 10, 45, 32,
          35786, 26029, 35201, 28857, 65306>> \o r.context
        \o <<10, 45, 32, 35831, 25353, 29031, 25512, 33616, 25514, 26045,
             25191, 34892, 65292, 24182, 35760, 24405, 22788, 29702, 32467,
             26524, 29992, 20110, 21518, 32493, 36861, 36394, 12290>>
    ELSE IF task_type = "sop_lookup" THEN
        <<12304, 83, 79, 80, 32, 24314, 35758, 12305, 10, 45, 32, 26816,
          32034, 32467, 26524, 65306>> \o r.context
        \o <<10, 45, 32, 35831, 20005, 26684, 23545, 29031, 32, 83, 79, 80,
             32, 27493, 39588, 25191, 34892, 65292, 24182, 22312, 25191,
             34892, 21333, 19978, 23436, 25104, 31614, 23383, 30830, 35748,
             12290>>
    ELSE IF task_type = "workorder_recommendation" THEN
        <<12304, 24037, 21333, 25512, 33616, 12305, 10, 45, 32, 25512, 33616,
          20381, 25454, 65306>> \o r.context
        \o <<10, 45, 32, 33509, 38656, 20572, 26426, 65292, 35831, 25552,
             21069, 19982, 29983, 20135, 21327, 35843, 30830, 35748, 31383,
             21475, 12290>>
    ELSE
        <<12304, 36890, 29992, 21709, 24212, 12305, 10, 45, 32, 21442, 32771,
          20449, 24687, 65306>> \o r.context
        \o <<10, 45, 32, 24314, 35758, 22797, 26680, 38656, 27714, 31867,
             22411, 20197, 33719, 21462, 26356, 20934, 30830, 24314, 35758,
             12290>>

\* dict.update: the keys of `more` overwrite those of `base`
Update(base, more) ==
    [k \in DOMAIN base \cup DOMAIN more |->
        IF k \in DOMAIN more THEN more[k] ELSE base[k]]

\* plan.metadata.get('priority', 'standard')
PriorityOf(p) ==
    IF "priority" \in DOMAIN p.metadata THEN p.metadata.priority
    ELSE "standard"

solve(p, r) ==
    [answer |-> IF r.context = <<>> THEN REFUSAL
                ELSE compose_answer(p.task_type, r),
     plan |-> p,
     references |->
        IF r.context = <<>> THEN <<>>
        ELSE Update([source |-> r.source, score |-> Hundredths(r.score)],
                    r.metadata),
     reasoning |-> [tool |-> p.tool_name, priority |-> PriorityOf(p)]]

(***************************************************************************)
(* Verifier (src/agents/verifier.py)                                       *)
(***************************************************************************)
FEEDBACK_PASSED == <<36890, 36807, 26657, 39564>>

FEEDBACK_NO_CONTEXT ==
    <<32570, 23569, 26816, 32034, 19978, 19979, 25991, 65292, 24314, 35758,
      20154, 24037, 22797, 26680>>

FEEDBACK_EMPTY_ANSWER ==
    <<29983, 25104, 20869, 23481, 20026, 31354, 65292, 24314, 35758, 37325,
      35797>>

\* passed = has_context or answer_ok
PassedEither(has_context, answer_ok) == has_context \/ answer_ok

\* retrieval.score if passed else 0.0
ConfidenceOnlyIfPassed(score, passed) == IF passed THEN score ELSE Zero

\* passed = has_context and answer_ok
Passed(has_context, answer_ok) == has_context /\ answer_ok

\* retrieval.score if retrieval.score else (0.2 if passed else 0.0)
Confidence(score, passed) ==
    IF score.num # 0 THEN score
    ELSE IF passed THEN [num |-> 1, den |-> 5] ELSE Zero

verify(p, s, r) ==
    LET has_context == r.context # <<>>
        answer_ok == Strip(s.answer) # <<>>
        passed == Passed(has_context, answer_ok)
    IN  [passed |-> passed,
         answer |-> s.answer,
         feedback |-> IF passed THEN FEEDBACK_PASSED
                      ELSE IF ~has_context THEN FEEDBACK_NO_CONTEXT
                      ELSE FEEDBACK_EMPTY_ANSWER,
         confidence |-> Hundredths(Confidence(r.score, passed))]

(***************************************************************************)
(* run_request (src/scripts/minimal_chain_demo.py), one step per stage     *)
(***************************************************************************)
PlanStep(r) ==
    /\ stage[r] = "Start"
    /\ plan' = [plan EXCEPT ![r] = Plan(task_rules, default_task, request[r])]
    /\ stage' = [stage EXCEPT ![r] = "Planned"]
    /\ UNCHANGED <<shared, request, best, retrieval, solve_result, verification>>

Remove(seq, i) == SubSeq(seq, 1, i - 1) \o SubSeq(seq, i + 1, Len(seq))

\* tools.execute(plan) taking the matched entry out of its corpus
RetrieveStepConsuming(r) ==
    /\ stage[r] = "Planned"
    /\ LET bm == ToolMatch(anomaly_entries, sop_entries, bom_entries, plan[r])
           res == execute(anomaly_entries, sop_entries, bom_entries,
                          plan[r], bm)
           hit(tool) == plan[r].tool_name = tool /\ bm.entry # 0
       IN  /\ best' = [best EXCEPT ![r] = bm]
           /\ IF IsRaised(res)
              THEN /\ stage' = [stage EXCEPT ![r] = "Raised"]
                   /\ UNCHANGED retrieval
              ELSE /\ stage' = [stage EXCEPT ![r] = "Retrieved"]
                   /\ retrieval' = [retrieval EXCEPT ![r] = res]
           /\ anomaly_entries' =
                IF hit("anomaly_diagnosis")
                THEN Remove(anomaly_entries, bm.entry) ELSE anomaly_entries
           /\ sop_entries' =
                IF hit("sop_lookup")
                THEN Remove(sop_entries, bm.entry) ELSE sop_entries
           /\ bom_entries' =
                IF hit("workorder_recommendation")
                THEN Remove(bom_entries, bm.entry) ELSE bom_entries
    /\ UNCHANGED <<task_rules, default_task, request, plan, solve_result,
                   verification>>

\* tools.execute(plan): the result, or the exception that ends the run
RetrieveStep(r) ==
    /\ stage[r] = "Planned"
    /\ LET bm == ToolMatch(anomaly_entries, sop_entries, bom_entries, plan[r])
           res == execute(anomaly_entries, sop_entries, bom_entries,
                          plan[r], bm)
       IN  /\ best' = [best EXCEPT ![r] = bm]
           /\ IF IsRaised(res)
              THEN /\ stage' = [stage EXCEPT ![r] = "Raised"]
                   /\ UNCHANGED retrieval
              ELSE /\ stage' = [stage EXCEPT ![r] = "Retrieved"]
                   /\ retrieval' = [retrieval EXCEPT ![r] = res]
    /\ UNCHANGED <<shared, request, plan, solve_result, verification>>

SolveStep(r) ==
    /\ stage[r] = "Retrieved"
    /\ solve_result' = [solve_result EXCEPT ![r] = solve(plan[r], retrieval[r])]
    /\ stage' = [stage EXCEPT ![r] = "Solved"]
    /\ UNCHANGED <<shared, request, plan, best, retrieval, verification>>

VerifyStep(r) ==
    /\ stage[r] = "Solved"
    /\ verification' = [verification EXCEPT
                           ![r] = verify(plan[r], solve_result[r], retrieval[r])]
    /\ stage' = [stage EXCEPT ![r] = "Verified"]
    /\ UNCHANGED <<shared, request, plan, best, retrieval, solve_result>>

Next ==
    \/ \E r \in DOMAIN stage : PlanStep(r)
    \/ \E r \in DOMAIN stage : RetrieveStep(r)
    \/ \E r \in DOMAIN stage : SolveStep(r)
    \/ \E r \in DOMAIN stage : VerifyStep(r)

(***************************************************************************)
(* Inputs                                                                  *)
(***************************************************************************)
RECURSIVE Concat(_)
Concat(ws) == IF ws = <<>> THEN <<>> ELSE ws[1] \o Concat(Tail(ws))

SeqsUpTo(S, n) == UNION {[1..k -> S] : k \in 0..n}

\* "告警", "SOP", "工单", " ", "泵"
Words == { <<21578, 35686>>, <<83, 79, 80>>, <<24037, 21333>>, <<32>>,
           <<27893>> }

Requests == {Concat(ws) : ws \in SeqsUpTo(Words, MaxWords)}

\* "sop_lookup" is the default of Planner.__init__; any other str may be
\* passed
DefaultTasks == {"sop_lookup", "general_qa"}

\* the rows of the data files: id "A1" or "A2", name "泵" or "告警泵",
\* issue "漏", advice "x"; a file may hold the same row twice
Rows ==
    { [id |-> <<65, 49>>, name |-> <<27893>>, issue |-> <<28431>>,
       advice |-> <<120>>],
      [id |-> <<65, 50>>, name |-> <<21578, 35686, 27893>>,
       issue |-> <<28431>>, advice |-> <<120>>] }

\* csv.DictReader: every record has exactly the columns of the header line
load_csv(columns, records) ==
    [i \in 1..Len(records) |-> [f \in columns |-> records[i][f]]]

AnomalyRow(row) ==
    [alert_id |-> row.id, symptom |-> row.name, probable_causes |-> row.issue,
     recommended_actions |-> row.advice]

SopRow(row) ==
    [equipment |-> row.name, issue |-> row.issue, sop_steps |-> row.advice]

\* _load_bom_corpus builds all four keys for every line it keeps
load_bom_corpus(rows) ==
    [i \in 1..Len(rows) |->
        [asset |-> rows[i].name, issue |-> rows[i].issue,
         work_order |-> rows[i].id, advice |-> rows[i].advice]]

AnomalyHeaders ==
    { {"alert_id", "symptom", "probable_causes", "recommended_actions"},
      {"alert_id", "symptom", "recommended_actions"} }

SopHeaders == { {"equipment", "issue", "sop_steps"}, {"equipment", "sop_steps"} }

\* Planner(default_task) and ToolExecutor() constructed, the data files
\* holding the same rows, the csv files with one of the given header lines
Constructed(defaults, anomaly_headers, sop_headers) ==
    /\ task_rules = TASK_RULES
    /\ default_task \in defaults
    /\ \E rows \in SeqsUpTo(Rows, MaxRecords) :
          /\ \E h \in anomaly_headers :
                anomaly_entries =
                    load_csv(h, [i \in 1..Len(rows) |-> AnomalyRow(rows[i])])
          /\ \E h \in sop_headers :
                sop_entries =
                    load_csv(h, [i \in 1..Len(rows) |-> SopRow(rows[i])])
          /\ bom_entries = load_bom_corpus(rows)

Fresh(runs) ==
    /\ stage = [r \in runs |-> "Start"]
    /\ plan = [r \in runs |-> None]
    /\ best = [r \in runs |-> None]
    /\ retrieval = [r \in runs |-> None]
    /\ solve_result = [r \in runs |-> None]
    /\ verification = [r \in runs |-> None]

\* one pipeline run
Init ==
    /\ Constructed(DefaultTasks, AnomalyHeaders, SopHeaders)
    /\ request \in [{1} -> Requests]
    /\ Fresh({1})

Spec == Init /\ [][Next]_vars

\* run_request runs its four calls one after the other without waiting
FairSpec == Spec /\ WF_vars(Next)

\* verify applied to any solve result and any retrieval of the data model
\* (score in [0, 1] with at most MaxLength characters compared)
MaxLength == 8

Scores == UNION {{Ratio(m, t) : m \in 0..(t \div 2)} : t \in 1..MaxLength}

InitVerify ==
    /\ task_rules = TASK_RULES
    /\ default_task = "sop_lookup"
    /\ anomaly_entries = <<>>
    /\ sop_entries = <<>>
    /\ bom_entries = <<>>
    /\ request = [r \in {1} |-> <<27893>>]
    /\ stage = [r \in {1} |-> "Solved"]
    /\ plan = [r \in {1} |-> Plan(TASK_RULES, "sop_lookup", <<27893>>)]
    /\ best = [r \in {1} |-> None]
    /\ \E context \in {<<>>, <<27893>>}, score \in Scores :
          retrieval = [r \in {1} |->
              [task_type |-> "sop_lookup", query |-> <<27893>>,
               context |-> context, source |-> [file |-> "", key |-> <<>>],
               score |-> score, metadata |-> <<>>]]
    /\ \E answer \in {<<>>, <<32>>, <<27893>>, REFUSAL} :
          solve_result = [r \in {1} |->
              [answer |-> answer,
               plan |-> Plan(TASK_RULES, "sop_lookup", <<27893>>),
               references |-> <<>>,
               reasoning |-> [tool |-> "sop_lookup", priority |-> "standard"]]]
    /\ verification = [r \in {1} |-> None]

NextVerify == \E r \in DOMAIN stage : VerifyStep(r)

SpecVerify == InitVerify /\ [][NextVerify]_vars

\* several runs over one Planner() and one ToolExecutor(), each with another
\* of the requests "告警泵", "SOP 泵" and "泵"
ConcRequests ==
    { <<21578, 35686, 27893>>, <<83, 79, 80, 32, 27893>>, <<27893>> }

InitConc ==
    /\ Constructed({"sop_lookup"}, AnomalyHeaders, SopHeaders)
    /\ request \in [1..NumRuns -> ConcRequests]
    /\ \A r1, r2 \in 1..NumRuns : r1 # r2 => request[r1] # request[r2]
    /\ Fresh(1..NumRuns)

SpecConc == InitConc /\ [][Next]_vars

(***************************************************************************)
(* Properties                                                              *)
(***************************************************************************)
Runs == DOMAIN stage

IsPlanned(r) == stage[r] \in {"Planned", "Retrieved", "Solved", "Verified", "Raised"}

HasRetrieval(r) == stage[r] \in {"Retrieved", "Solved", "Verified"}

DeclaredTaskTypes == {TASK_RULES[i].task_type : i \in 1..Len(TASK_RULES)}

\* rule i has a keyword that occurs in the case-folded request
RuleHits(i, req) ==
    \E k \in 1..Len(TASK_RULES[i].keywords) :
        Contains(Lower(req), TASK_RULES[i].keywords[k])

NoRuleHits(req) == \A i \in 1..Len(TASK_RULES) : ~RuleHits(i, req)

\* C1: the first rule in declaration order with a keyword in the
\* case-folded request decides task_type and tool_name; of two rules that
\* both have a keyword in the request, the plan never carries the later one
C1_RulePrecedence ==
    \A r \in Runs : IsPlanned(r) =>
        \A i \in 1..Len(TASK_RULES) :
            RuleHits(i, request[r]) =>
                /\ (\A j \in 1..(i - 1) : ~RuleHits(j, request[r])) =>
                      /\ plan[r].task_type = TASK_RULES[i].task_type
                      /\ plan[r].tool_name = TASK_RULES[i].tool
                /\ \A j \in (i + 1)..Len(TASK_RULES) :
                      RuleHits(j, request[r]) =>
                          plan[r].task_type # TASK_RULES[j].task_type

\* a planned request with keywords of the second and the third rule only
C1_Witness ==
    \E r \in Runs :
        /\ IsPlanned(r)
        /\ ~RuleHits(1, request[r])
        /\ RuleHits(2, request[r])
        /\ RuleHits(3, request[r])
        /\ plan[r].task_type = "sop_lookup"

\* the corpus and the fields the tool named `tool` searches
EntriesOf(tool) ==
    IF tool = "anomaly_diagnosis" THEN anomaly_entries
    ELSE IF tool = "sop_lookup" THEN sop_entries
    ELSE bom_entries

FieldsOf(tool) ==
    IF tool = "anomaly_diagnosis" THEN AnomalyFields
    ELSE IF tool = "sop_lookup" THEN SopFields
    ELSE BomFields

HasMatch(r) ==
    /\ stage[r] \in {"Retrieved", "Solved", "Verified", "Raised"}
    /\ plan[r].tool_name \in DeclaredTaskTypes
    /\ best[r].entry # 0

ScoreOfEntry(r, i) ==
    Score(plan[r].query,
          MatchText(EntriesOf(plan[r].tool_name)[i], FieldsOf(plan[r].tool_name)))

\* C2: the record _best_match chose scores at least as high as every record
\* of the corpus, and no record before it in load order has the same score
C2_BestMatch ==
    \A r \in Runs : HasMatch(r) =>
        /\ best[r].entry \in 1..Len(EntriesOf(plan[r].tool_name))
        /\ best[r].score = ScoreOfEntry(r, best[r].entry)
        /\ \A i \in 1..Len(EntriesOf(plan[r].tool_name)) :
              /\ ~Less(best[r].score, ScoreOfEntry(r, i))
              /\ i < best[r].entry => ScoreOfEntry(r, i) # best[r].score

\* two records with the same text tie for the best score; the first is chosen
C2_Witness ==
    \E r \in Runs :
        /\ HasMatch(r)
        /\ Len(EntriesOf(plan[r].tool_name)) >= 2
        /\ best[r].entry = 1
        /\ ScoreOfEntry(r, 2) = best[r].score

\* C3: a returned RetrievalResult has an empty context exactly when its
\* score is 0
C3_ContextIffScore ==
    \A r \in Runs : HasRetrieval(r) =>
        (retrieval[r].context = <<>> <=> retrieval[r].score.num = 0)

\* a matched record: context composed, score positive
C3_Witness ==
    \E r \in Runs :
        /\ HasRetrieval(r)
        /\ retrieval[r].context # <<>>
        /\ retrieval[r].score.num > 0

\* C4: execute returns a RetrievalResult for every plan and corpus; it
\* never raises
C4_ExecuteNeverFails == \A r \in Runs : stage[r] # "Raised"

HasNonSpace(s) == \E i \in 1..Len(s) : s[i] \notin WhitespaceChars

\* C5 as stated: a non-empty request gives a non-empty query
C5_QueryNonEmpty ==
    \A r \in Runs : (IsPlanned(r) /\ request[r] # <<>>) => plan[r].query # <<>>

\* C5 amended: a request with a character that is not whitespace gives a
\* non-empty query, which is the request without its leading and trailing
\* whitespace; a request of whitespace only gives the empty query
C5_QueryTrimmed ==
    \A r \in Runs : IsPlanned(r) =>
        LET q == plan[r].query
        IN  IF HasNonSpace(request[r])
            THEN /\ q # <<>>
                 /\ q[1] \notin WhitespaceChars
                 /\ q[Len(q)] \notin WhitespaceChars
                 /\ \E pre, post \in 0..Len(request[r]) :
                       /\ pre + Len(q) + post = Len(request[r])
                       /\ SubSeq(request[r], pre + 1, pre + Len(q)) = q
                       /\ \A i \in 1..Len(request[r]) :
                             (i <= pre \/ i > pre + Len(q)) =>
                                 request[r][i] \in WhitespaceChars
            ELSE q = <<>>

\* a request with whitespace around its text, planned
C5_Witness ==
    \E r \in Runs :
        /\ IsPlanned(r)
        /\ HasNonSpace(request[r])
        /\ request[r][1] \in WhitespaceChars
        /\ Len(plan[r].query) < Len(request[r])

ReasonIsFallback(p) ==
    "reason" \in DOMAIN p.metadata /\ p.metadata.reason = "fallback"

\* C6 as stated: task_type and tool_name of the plan of a non-empty request
\* are declared task types; reason = fallback exactly when no rule matches
C6_DeclaredTaskType ==
    \A r \in Runs : (IsPlanned(r) /\ request[r] # <<>>) =>
        /\ plan[r].task_type \in DeclaredTaskTypes
        /\ plan[r].tool_name \in DeclaredTaskTypes
        /\ NoRuleHits(request[r]) => ReasonIsFallback(plan[r])
        /\ ~NoRuleHits(request[r]) => "reason" \notin DOMAIN plan[r].metadata

\* C6 amended: task_type and tool_name are a declared task type when a rule
\* matches and the configured default_task when none does
C6_DeclaredOrDefault ==
    \A r \in Runs : (IsPlanned(r) /\ request[r] # <<>>) =>
        /\ plan[r].task_type \in DeclaredTaskTypes \cup {default_task}
        /\ plan[r].tool_name = plan[r].task_type
        /\ NoRuleHits(request[r]) =>
              /\ ReasonIsFallback(plan[r])
              /\ plan[r].task_type = default_task
        /\ ~NoRuleHits(request[r]) =>
              /\ "reason" \notin DOMAIN plan[r].metadata
              /\ plan[r].task_type \in DeclaredTaskTypes

\* a non-empty request no rule matches, planned by a Planner whose
\* default_task is not a declared task type
C6_Witness ==
    \E r \in Runs :
        /\ IsPlanned(r)
        /\ request[r] # <<>>
        /\ NoRuleHits(request[r])
        /\ default_task \notin DeclaredTaskTypes
        /\ plan[r].task_type = default_task

Abs(n) == IF n < 0 THEN -n ELSE n

\* C7: confidence is retrieval.score rounded to hundredths when the score is
\* greater than 0, else 0.20 when passed, else 0.00; it lies in [0, 1]
C7_Confidence ==
    \A r \in Runs : stage[r] = "Verified" =>
        LET s == retrieval[r].score
            c == verification[r].confidence
        IN  /\ c \in 0..100
            /\ s.num > 0 => 2 * Abs(100 * s.num - c * s.den) <= s.den
            /\ s.num <= 0 => c = (IF verification[r].passed THEN 20 ELSE 0)

\* verify called with a context and score 0: passed, confidence 0.20
C7_Witness ==
    \E r \in Runs :
        /\ stage[r] = "Verified"
        /\ retrieval[r].score.num = 0
        /\ verification[r].passed
        /\ verification[r].confidence = 20

StageOrder ==
    { <<"Start", "Planned">>, <<"Planned", "Retrieved">>,
      <<"Retrieved", "Solved">>, <<"Solved", "Verified">> }

\* C8: a run moves only Planned -> Retrieved -> Solved -> Verified, one
\* stage at a time, and reaches Verified with a complete result
C8_LinearToVerified ==
    /\ [][\A r \in Runs :
            stage'[r] # stage[r] => <<stage[r], stage'[r]>> \in StageOrder]_vars
    /\ <>(stage[1] = "Verified" /\ verification[1] # None)

\* what run r has when it runs alone on the constructed planner and tools
AlonePlan(r) == Plan(TASK_RULES, default_task, request[r])

AloneRetrieval(r) ==
    execute(anomaly_entries, sop_entries, bom_entries, AlonePlan(r),
            ToolMatch(anomaly_entries, sop_entries, bom_entries, AlonePlan(r)))

AloneResults ==
    \A r \in Runs :
        LET p == AlonePlan(r)
            res == AloneRetrieval(r)
            s == solve(p, res)
        IN  /\ IsPlanned(r) => plan[r] = p
            /\ stage[r] = "Raised" => IsRaised(res)
            /\ HasRetrieval(r) => retrieval[r] = res
            /\ stage[r] \in {"Solved", "Verified"} => solve_result[r] = s
            /\ stage[r] = "Verified" => verification[r] = verify(p, s, res)

\* C9: interleaved runs sharing the planner and the tools leave the rule
\* table and the corpora as constructed, and every run has the results it
\* has when it runs alone
C9_Isolation ==
    /\ [][shared' = shared]_vars
    /\ [](task_rules = TASK_RULES /\ AloneResults)

\* two runs over different requests that both found a record, the second
\* retrieved after the first was verified
C9_Witness ==
    \E r1, r2 \in Runs :
        /\ request[r1] # request[r2]
        /\ stage[r1] = "Verified"
        /\ stage[r2] = "Retrieved"
        /\ verification[r1].passed
        /\ retrieval[r2].context # <<>>

\* C10: an empty context ends not passed, with the missing-context feedback
\* and confidence 0.00; a non-empty context ends passed with the passed
\* feedback; the empty-answer feedback never appears
C10_Outcome ==
    \A r \in Runs : stage[r] = "Verified" =>
        /\ retrieval[r].context = <<>> =>
              /\ ~verification[r].passed
              /\ verification[r].feedback = FEEDBACK_NO_CONTEXT
              /\ verification[r].confidence = 0
        /\ retrieval[r].context # <<>> =>
              /\ verification[r].passed
              /\ verification[r].feedback = FEEDBACK_PASSED
        /\ verification[r].feedback # FEEDBACK_EMPTY_ANSWER

\* a run verified after retrieval found nothing
C10_Witness ==
    \E r \in Runs :
        /\ stage[r] = "Verified"
        /\ retrieval[r].context = <<>>
        /\ ~verification[r].passed
        /\ solve_result[r].answer = REFUSAL

=============================================================================
